---- MODULE Spec2Model ----
(***************************************************************************)
(* Maxxa Velada fight statistics (src/app.py): the match table, the two    *)
(* submission handlers and the read handlers (leaderboard, player stats,   *)
(* match list, summary, HTML pages).                                       *)
(*                                                                         *)
(* Text values that the code trims, compares or parses are sequences of    *)
(* one-character strings, so that str.strip() and int() are computed.      *)
(* The optional pass-through columns (stage, character_p1, character_p2,   *)
(* mode) are not modelled.                                                 *)
(***************************************************************************)
EXTENDS Integers, Sequences, FiniteSets

VARIABLES matches, resp

vars == <<matches, resp>>

(***************************************************************************)
(* Bounds and input universes                                              *)
(***************************************************************************)
MaxMatches == 2

\* values of request.get_json()/request.form fields for player1_name;
\* <<>> stands for both the empty string and a missing key (x or "")
RawNames == { <<>>, <<" ">>, <<"a">>, <<"A", " ">>, <<" ", "b">> }

\* values of the player2_name field
RawNames2 == { <<>>, <<"a">>, <<" ", "b">> }

\* Python None, the value of dict.get for a missing key
None == "None"

RawWinners == { None, "p1", "p2", "p3" }

\* values of the score fields; <<>> stands for "" and for a missing key
RawScores == { <<>>, <<"2">>, <<"-", "1">>, <<"x">> }

\* request bodies: every combination of names and winner with the scores
\* left out, and every value of either score for one valid pair of names
Submissions ==
    [player1_name : RawNames, player2_name : RawNames2, winner : RawWinners,
     score_p1 : {<<>>}, score_p2 : {<<>>}]
    \cup
    [player1_name : {<<"a">>}, player2_name : {<<" ", "b">>}, winner : {"p2"},
     score_p1 : RawScores, score_p2 : {<<>>}]
    \cup
    [player1_name : {<<"a">>}, player2_name : {<<" ", "b">>}, winner : {"p2"},
     score_p1 : {<<>>}, score_p2 : RawScores]

\* ticks of datetime.utcnow() between two consecutive inserts
Elapsed == {0, 1}

(***************************************************************************)
(* str.strip() and int()                                                   *)
(***************************************************************************)
Whitespace == {" "}

RECURSIVE LStrip(_)
LStrip(s) ==
    IF s # <<>> /\ Head(s) \in Whitespace THEN LStrip(Tail(s)) ELSE s

RECURSIVE RStrip(_)
RStrip(s) ==
    IF s # <<>> /\ s[Len(s)] \in Whitespace
    THEN RStrip(SubSeq(s, 1, Len(s) - 1))
    ELSE s

Strip(s) == RStrip(LStrip(s))

Digits == {"0", "1", "2", "3", "4", "5", "6", "7", "8", "9"}

DigitVal(c) ==
    CASE c = "0" -> 0 [] c = "1" -> 1 [] c = "2" -> 2 [] c = "3" -> 3
      [] c = "4" -> 4 [] c = "5" -> 5 [] c = "6" -> 6 [] c = "7" -> 7
      [] c = "8" -> 8 [] c = "9" -> 9

AllDigits(s) == s # <<>> /\ \A i \in 1..Len(s) : s[i] \in Digits

RECURSIVE DigitsVal(_)
DigitsVal(s) ==
    IF s = <<>> THEN 0
    ELSE 10 * DigitsVal(SubSeq(s, 1, Len(s) - 1)) + DigitVal(s[Len(s)])

\* int(s) raises ValueError unless s is an optionally signed digit string
IsIntLiteral(s) ==
    IF s # <<>> /\ Head(s) \in {"-", "+"} THEN AllDigits(Tail(s)) ELSE AllDigits(s)

IntOf(s) ==
    IF Head(s) = "-" THEN 0 - DigitsVal(Tail(s))
    ELSE IF Head(s) = "+" THEN DigitsVal(Tail(s))
    ELSE DigitsVal(s)

\* int(x or 0): a missing or empty field is 0
ScoreRaises(s) == s # <<>> /\ ~IsIntLiteral(s)

ScoreOf(s) == IF s = <<>> THEN 0 ELSE IntOf(s)

(***************************************************************************)
(* The match table                                                         *)
(***************************************************************************)
\* created_at default: utcnow() at insert, never before the latest stored one
UtcNow(ms, dt) == IF ms = <<>> THEN 1 ELSE ms[Len(ms)].created_at + dt

\* Match(...) with the autoincrement id and the created_at default
Match(ms, p1, p2, w, s1, s2, dt) ==
    [id |-> Len(ms) + 1, created_at |-> UtcNow(ms, dt),
     player1_name |-> p1, player2_name |-> p2, winner |-> w,
     score_p1 |-> s1, score_p2 |-> s2]

\* a mutant of Commit: the new row overwrites the latest one
CommitOverwrites(ms, match) ==
    IF ms = <<>> THEN <<match>> ELSE [ms EXCEPT ![Len(ms)] = match]

\* db.session.add(match); db.session.commit(): one INSERT
Commit(ms, match) == Append(ms, match)

Idle == [op |-> "idle", status |-> 0]

Init ==
    /\ matches = <<>>
    /\ resp = Idle

(***************************************************************************)
(* POST /api/matches                                                       *)
(***************************************************************************)
PostWinnerOk(w) == w \in {"p1", "p2"}

post_match ==
    /\ resp = Idle
    /\ \E data \in Submissions :
         LET player1_name == Strip(data.player1_name)
             player2_name == Strip(data.player2_name)
             winner == data.winner
         IN  IF player1_name = <<>> \/ player2_name = <<>>
             THEN /\ resp' = [op |-> "post_match", status |-> 400, winner |-> data.winner,
                              error |-> "player1_name and player2_name required"]
                  /\ UNCHANGED matches
             ELSE IF ~PostWinnerOk(winner)
             THEN /\ resp' = [op |-> "post_match", status |-> 400, winner |-> data.winner,
                              error |-> "winner must be 'p1' or 'p2'"]
                  /\ UNCHANGED matches
             ELSE IF ScoreRaises(data.score_p1) \/ ScoreRaises(data.score_p2)
             THEN /\ resp' = [op |-> "post_match", status |-> 500, winner |-> data.winner,
                              error |-> "ValueError"]
                  /\ UNCHANGED matches
             ELSE \E dt \in Elapsed :
                  LET match == Match(matches, player1_name, player2_name, winner,
                                     ScoreOf(data.score_p1), ScoreOf(data.score_p2), dt)
                  IN  /\ Len(matches) < MaxMatches
                      /\ matches' = Commit(matches, match)
                      /\ resp' = [op |-> "post_match", status |-> 201, winner |-> data.winner,
                                  body |-> match]

(***************************************************************************)
(* POST /matches/new (HTML form)                                           *)
(***************************************************************************)
FormWinner(w) == IF w \notin {"p1", "p2"} THEN "p1" ELSE w

page_new_match ==
    /\ resp = Idle
    /\ \E form \in Submissions :
         LET player1_name == Strip(form.player1_name)
             player2_name == Strip(form.player2_name)
             winner == FormWinner(form.winner)
         IN  IF player1_name = <<>> \/ player2_name = <<>>
             THEN /\ resp' = [op |-> "page_new_match", status |-> 400, winner |-> form.winner,
                              error |-> "Faltan nombres"]
                  /\ UNCHANGED matches
             ELSE IF ScoreRaises(form.score_p1) \/ ScoreRaises(form.score_p2)
             THEN /\ resp' = [op |-> "page_new_match", status |-> 500, winner |-> form.winner,
                              error |-> "ValueError"]
                  /\ UNCHANGED matches
             ELSE \E dt \in Elapsed :
                  LET match == Match(matches, player1_name, player2_name, winner,
                                     ScoreOf(form.score_p1), ScoreOf(form.score_p2), dt)
                  IN  /\ Len(matches) < MaxMatches
                      /\ matches' = Commit(matches, match)
                      /\ resp' = [op |-> "page_new_match", status |-> 302, winner |-> form.winner]

(***************************************************************************)
(* Query-string arguments: int(request.args.get(key, default))             *)
(***************************************************************************)
\* the key is not in the query string
Missing == <<"missing">>

ArgRaises(raw) == raw # Missing /\ ~IsIntLiteral(raw)

ArgInt(raw, default) == IF raw = Missing THEN default ELSE IntOf(raw)

Min(a, b) == IF a < b THEN a ELSE b

Max(a, b) == IF a > b THEN a ELSE b

LimitArgs == { Missing, <<"-", "1">>, <<"0">>, <<"1">>, <<"1", "0", "1">>, <<"x">> }

MinGamesArgs == { Missing, <<"-", "1">>, <<"2">> }

PageArgs == { Missing, <<"0">>, <<"2">> }

PerPageArgs == { Missing, <<"0">>, <<"5", "1">>, <<"x">> }

\* <name> segments of /api/players/<name>/stats (never empty)
PathNames == { <<"a">>, <<" ", "a">>, <<"A">>, <<" ">>, <<"z">> }

\* the database behind DATABASE_URL
Dialects == { "sqlite", "postgresql" }

DefaultLimit == 10

MaxLimit == 100

DefaultMinGames == 1

HtmlDefaultLimit == 20

DefaultPage == 1

DefaultPerPage == 20

MaxPerPage == 50

HtmlPerPage == 20

(***************************************************************************)
(* The aggregation query                                                   *)
(***************************************************************************)
\* combined: one row per match and side (UNION ALL keeps duplicates)
Combined(ms) == { <<i, side>> : i \in 1..Len(ms), side \in {1, 2} }

ObsName(ms, o) ==
    IF o[2] = 1 THEN ms[o[1]].player1_name ELSE ms[o[1]].player2_name

\* a mutant of ObsWon: both branches of the UNION test winner = 'p1'
ObsWonP1(ms, o) == IF ms[o[1]].winner = "p1" THEN 1 ELSE 0

\* CASE WHEN winner = 'p1' THEN 1 ELSE 0 END / CASE WHEN winner = 'p2' ...
ObsWon(ms, o) ==
    IF o[2] = 1
    THEN (IF ms[o[1]].winner = "p1" THEN 1 ELSE 0)
    ELSE (IF ms[o[1]].winner = "p2" THEN 1 ELSE 0)

SumWon(ms, obs) == Cardinality({ o \in obs : ObsWon(ms, o) = 1 })

\* agg: GROUP BY name
Agg(ms) ==
    { LET grp == { o \in Combined(ms) : ObsName(ms, o) = n }
      IN  [name |-> n, wins |-> SumWon(ms, grp), total_games |-> Cardinality(grp),
           losses |-> Cardinality(grp) - SumWon(ms, grp)]
      : n \in { ObsName(ms, o) : o \in Combined(ms) } }

\* a mutant of MinGamesWhere: a strict comparison
MinGamesWhereStrict(row, min_games) == row.total_games > min_games

\* WHERE total_games >= :min_games
MinGamesWhere(row, min_games) == row.total_games >= min_games

\* a mutant of OrderBy: the tie on wins is broken by the fewest games
OrderByFewestGames(a, b) ==
    a.wins > b.wins \/ (a.wins = b.wins /\ a.total_games <= b.total_games)

\* ORDER BY wins DESC, total_games DESC: a may come before b
OrderBy(a, b) ==
    a.wins > b.wins \/ (a.wins = b.wins /\ a.total_games >= b.total_games)

\* the orders the database may return the rows in; rows that tie on both
\* keys come in any order
Ordered(rows) ==
    { f \in [1..Cardinality(rows) -> rows] :
        /\ \A i, j \in DOMAIN f : i # j => f[i] # f[j]
        /\ \A i, j \in DOMAIN f : i < j => OrderBy(f[i], f[j]) }

Prefix(seq, n) == SubSeq(seq, 1, Min(n, Len(seq)))

\* LIMIT :limit. A negative limit is no limit in SQLite and an error in
\* PostgreSQL.
LimitRaises(limit, dialect) == limit < 0 /\ dialect = "postgresql"

Limit(seq, limit) == IF limit < 0 THEN seq ELSE Prefix(seq, limit)

\* nearest integer to num / den, a tie going to the even one: Python round()
RoundHalfEven(num, den) ==
    LET q == num \div den
        r == num % den
    IN  IF 2 * r < den THEN q
        ELSE IF 2 * r > den THEN q + 1
        ELSE IF q % 2 = 0 THEN q ELSE q + 1

\* nearest integer to num / den, a tie going up: SQL ROUND()
RoundHalfUp(num, den) ==
    LET q == num \div den
        r == num % den
    IN  IF 2 * r < den THEN q ELSE q + 1

\* win_rate in hundredths: round(r.wins / r.total_games, 2) if r.total_games else 0
WinRate(wins, total) == IF total = 0 THEN 0 ELSE RoundHalfEven(100 * wins, total)

\* win_rate_pct in units of 10^-places percent:
\* ROUND(100.0 * wins / NULLIF(total_games, 0), places), NULL read as 0
WinRatePct(wins, total, places) ==
    IF total = 0 THEN 0
    ELSE RoundHalfUp(100 * (IF places = 2 THEN 100 ELSE 10) * wins, total)

(***************************************************************************)
(* GET /api/leaderboard                                                    *)
(***************************************************************************)
get_leaderboard ==
    /\ resp = Idle
    /\ UNCHANGED matches
    /\ \E rawLimit \in LimitArgs, rawMinGames \in MinGamesArgs, dialect \in Dialects :
         IF ArgRaises(rawLimit) \/ ArgRaises(rawMinGames)
         THEN resp' = [op |-> "get_leaderboard", status |-> 500,
                       limit |-> rawLimit, min_games |-> rawMinGames,
                       error |-> "ValueError"]
         ELSE LET limit == Min(ArgInt(rawLimit, DefaultLimit), MaxLimit)
                  min_games == Max(0, ArgInt(rawMinGames, DefaultMinGames))
              IN  IF LimitRaises(limit, dialect)
                  THEN resp' = [op |-> "get_leaderboard", status |-> 500,
                                limit |-> rawLimit, min_games |-> rawMinGames,
                                error |-> "LIMIT must not be negative"]
                  ELSE \E sorted \in Ordered({ r \in Agg(matches) :
                                               MinGamesWhere(r, min_games) }) :
                         LET rows == Limit(sorted, limit)
                         IN  resp' =
                               [op |-> "get_leaderboard", status |-> 200,
                                limit |-> rawLimit, min_games |-> rawMinGames,
                                body |->
                                  [i \in 1..Len(rows) |->
                                     [rank |-> i,
                                      name |-> rows[i].name,
                                      wins |-> rows[i].wins,
                                      losses |-> rows[i].losses,
                                      total_games |-> rows[i].total_games,
                                      win_rate |-> WinRate(rows[i].wins, rows[i].total_games),
                                      win_rate_pct |->
                                        WinRatePct(rows[i].wins, rows[i].total_games, 2)]]]

(***************************************************************************)
(* GET /leaderboard (HTML)                                                 *)
(***************************************************************************)
page_leaderboard ==
    /\ resp = Idle
    /\ UNCHANGED matches
    /\ \E rawLimit \in LimitArgs, dialect \in Dialects :
         IF ArgRaises(rawLimit)
         THEN resp' = [op |-> "page_leaderboard", status |-> 500, limit |-> rawLimit,
                       error |-> "ValueError"]
         ELSE LET limit == Min(ArgInt(rawLimit, HtmlDefaultLimit), MaxLimit)
              IN  IF LimitRaises(limit, dialect)
                  THEN resp' = [op |-> "page_leaderboard", status |-> 500,
                                limit |-> rawLimit,
                                error |-> "LIMIT must not be negative"]
                  ELSE \E sorted \in Ordered(Agg(matches)) :
                         LET rows == Limit(sorted, limit)
                         IN  resp' =
                               [op |-> "page_leaderboard", status |-> 200,
                                limit |-> rawLimit,
                                body |->
                                  [i \in 1..Len(rows) |->
                                     [rank |-> i,
                                      name |-> rows[i].name,
                                      wins |-> rows[i].wins,
                                      losses |-> rows[i].losses,
                                      total_games |-> rows[i].total_games,
                                      win_rate_pct |->
                                        WinRatePct(rows[i].wins, rows[i].total_games, 1)]]]

(***************************************************************************)
(* GET /api/players/<name>/stats                                           *)
(***************************************************************************)
\* a mutant of PlayerRow: the player2_name branch of the UNION is missing
PlayerRowP1Only(ms, name) ==
    LET obs == { o \in Combined(ms) : o[2] = 1 /\ ObsName(ms, o) = name }
    IN  [wins |-> SumWon(ms, obs), total_games |-> Cardinality(obs)]

\* SELECT SUM(won) AS wins, COUNT(*) AS total_games FROM combined WHERE name = :name
PlayerRow(ms, name) ==
    LET obs == { o \in Combined(ms) : ObsName(ms, o) = name }
    IN  [wins |-> SumWon(ms, obs), total_games |-> Cardinality(obs)]

get_player_stats ==
    /\ resp = Idle
    /\ UNCHANGED matches
    /\ \E path \in PathNames :
         LET name == Strip(path)
             row == PlayerRow(matches, name)
         IN  IF name = <<>>
             THEN resp' = [op |-> "get_player_stats", status |-> 400, path |-> path,
                           error |-> "name required"]
             ELSE IF row.total_games = 0
             THEN resp' = [op |-> "get_player_stats", status |-> 200, path |-> path,
                           body |-> [name |-> name, wins |-> 0, losses |-> 0,
                                     total_games |-> 0, win_rate |-> 0]]
             ELSE resp' = [op |-> "get_player_stats", status |-> 200, path |-> path,
                           body |-> [name |-> name, wins |-> row.wins,
                                     losses |-> row.total_games - row.wins,
                                     total_games |-> row.total_games,
                                     win_rate |-> WinRate(row.wins, row.total_games)]]

(***************************************************************************)
(* GET /api/matches and GET /matches (HTML)                                *)
(***************************************************************************)
\* ORDER BY created_at DESC: the orders the database may return the matches
\* in; matches with the same created_at come in any order
OrderByCreatedAtDesc(ms) ==
    { [i \in 1..Len(ms) |-> ms[f[i]]] :
        f \in { g \in [1..Len(ms) -> 1..Len(ms)] :
                  /\ \A i, j \in 1..Len(ms) : i # j => g[i] # g[j]
                  /\ \A i, j \in 1..Len(ms) :
                       i < j => ms[g[i]].created_at >= ms[g[j]].created_at } }

\* paginate(page, per_page).items: OFFSET (page - 1) * per_page LIMIT per_page
PageItems(seq, page, per_page) ==
    SubSeq(seq, (page - 1) * per_page + 1, Min(page * per_page, Len(seq)))

\* paginate() aborts with 404 on an empty page other than the first
PageNotFound(items, page) == items = <<>> /\ page # 1

list_matches ==
    /\ resp = Idle
    /\ UNCHANGED matches
    /\ \E rawPage \in PageArgs, rawPerPage \in PerPageArgs :
         IF ArgRaises(rawPage) \/ ArgRaises(rawPerPage)
         THEN resp' = [op |-> "list_matches", status |-> 500,
                       rawPage |-> rawPage, rawPerPage |-> rawPerPage,
                       error |-> "ValueError"]
         ELSE LET page == Max(1, ArgInt(rawPage, DefaultPage))
                  per_page == Min(MaxPerPage, Max(1, ArgInt(rawPerPage, DefaultPerPage)))
              IN  \E sorted \in OrderByCreatedAtDesc(matches) :
                    LET items == PageItems(sorted, page, per_page)
                    IN  IF PageNotFound(items, page)
                        THEN resp' = [op |-> "list_matches", status |-> 404,
                                      rawPage |-> rawPage, rawPerPage |-> rawPerPage,
                                      error |-> "Not Found"]
                        ELSE resp' = [op |-> "list_matches", status |-> 200,
                                      rawPage |-> rawPage, rawPerPage |-> rawPerPage,
                                      body |-> [matches |-> items,
                                                total |-> Len(matches),
                                                page |-> page,
                                                per_page |-> per_page]]

page_matches ==
    /\ resp = Idle
    /\ UNCHANGED matches
    /\ \E rawPage \in PageArgs :
         IF ArgRaises(rawPage)
         THEN resp' = [op |-> "page_matches", status |-> 500,
                       rawPage |-> rawPage, rawPerPage |-> Missing,
                       error |-> "ValueError"]
         ELSE LET page == Max(1, ArgInt(rawPage, DefaultPage))
                  per_page == HtmlPerPage
              IN  \E sorted \in OrderByCreatedAtDesc(matches) :
                    LET items == PageItems(sorted, page, per_page)
                    IN  IF PageNotFound(items, page)
                        THEN resp' = [op |-> "page_matches", status |-> 404,
                                      rawPage |-> rawPage, rawPerPage |-> Missing,
                                      error |-> "Not Found"]
                        ELSE resp' = [op |-> "page_matches", status |-> 200,
                                      rawPage |-> rawPage, rawPerPage |-> Missing,
                                      body |-> [matches |-> items,
                                                total |-> Len(matches),
                                                page |-> page,
                                                per_page |-> per_page]]

(***************************************************************************)
(* GET /api/stats/summary, GET / and GET /matches/new                      *)
(***************************************************************************)
stats_summary ==
    /\ resp = Idle
    /\ UNCHANGED matches
    /\ resp' = [op |-> "stats_summary", status |-> 200,
                body |-> [total_matches |-> Len(matches)]]

home ==
    /\ resp = Idle
    /\ UNCHANGED matches
    /\ resp' = [op |-> "home", status |-> 200]

page_new_match_form ==
    /\ resp = Idle
    /\ UNCHANGED matches
    /\ resp' = [op |-> "page_new_match_form", status |-> 200]

\* the response leaves the server; the next request is handled after it
send_response ==
    /\ resp # Idle
    /\ resp' = Idle
    /\ UNCHANGED matches

Next ==
    \/ post_match
    \/ page_new_match
    \/ get_leaderboard
    \/ page_leaderboard
    \/ get_player_stats
    \/ list_matches
    \/ page_matches
    \/ stats_summary
    \/ home
    \/ page_new_match_form
    \/ send_response

Spec == Init /\ [][Next]_vars

(***************************************************************************)
(* Properties                                                              *)
(***************************************************************************)
SubmitOps == {"post_match", "page_new_match"}

BoardOps == {"get_leaderboard", "page_leaderboard"}

ListOps == {"list_matches", "page_matches"}

Accepted(r) ==
    \/ r.op = "post_match" /\ r.status = 201
    \/ r.op = "page_new_match" /\ r.status = 302

\* the two observations of every match, by side
Sides == {"p1", "p2"}

SideName(m, side) == IF side = "p1" THEN m.player1_name ELSE m.player2_name

RefGames(n) ==
    Cardinality({ o \in (1..Len(matches)) \X Sides :
                    SideName(matches[o[1]], o[2]) = n })

RefWins(n) ==
    Cardinality({ o \in (1..Len(matches)) \X Sides :
                    SideName(matches[o[1]], o[2]) = n /\ matches[o[1]].winner = o[2] })

AllNames ==
    { matches[i].player1_name : i \in 1..Len(matches) }
      \cup { matches[i].player2_name : i \in 1..Len(matches) }

RECURSIVE SumWins(_)
SumWins(seq) == IF seq = <<>> THEN 0 ELSE Head(seq).wins + SumWins(Tail(seq))

RECURSIVE SumLosses(_)
SumLosses(seq) == IF seq = <<>> THEN 0 ELSE Head(seq).losses + SumLosses(Tail(seq))

RECURSIVE SumWinsOf(_)
SumWinsOf(rows) ==
    IF rows = {} THEN 0
    ELSE LET r == CHOOSE x \in rows : TRUE IN r.wins + SumWinsOf(rows \ {r})

RECURSIVE SumLossesOf(_)
SumLossesOf(rows) ==
    IF rows = {} THEN 0
    ELSE LET r == CHOOSE x \in rows : TRUE IN r.losses + SumLossesOf(rows \ {r})

BodyNames == { resp.body[i].name : i \in 1..Len(resp.body) }

UpperChar(c) == IF c = "a" THEN "A" ELSE IF c = "b" THEN "B" ELSE c

Upper(s) == [i \in 1..Len(s) |-> UpperChar(s[i])]

\* C1: a submission through post_match or page_new_match whose winner is not
\* exactly "p1" or "p2" (a missing winner included) is rejected with a
\* validation error and leaves the stored matches unchanged.
C1_InvalidWinnerRejected ==
    [][ (resp'.op \in SubmitOps /\ resp'.winner \notin {"p1", "p2"})
          => (resp'.status = 400 /\ matches' = matches) ]_vars

\* C2: the wins of all players and the losses of all players both add up to
\* the number of stored matches, in the aggregation over the whole history
\* and in every leaderboard that lists all players.
C2_WinsEqualLossesEqualMatches ==
    /\ SumWinsOf(Agg(matches)) = Len(matches)
    /\ SumLossesOf(Agg(matches)) = Len(matches)
    /\ (resp.op \in BoardOps /\ resp.status = 200 /\ BodyNames = AllNames)
         => /\ SumWins(resp.body) = Len(matches)
            /\ SumLosses(resp.body) = Len(matches)

\* a complete leaderboard over two matches, one of them a player against
\* themselves
C2_Witness ==
    /\ resp.op \in BoardOps /\ resp.status = 200 /\ BodyNames = AllNames
    /\ Len(matches) = 2
    /\ \E i \in 1..Len(matches) : matches[i].player1_name = matches[i].player2_name
    /\ Cardinality(AllNames) >= 2

\* C3: every stored match has names that are non-empty, trimmed and
\* uppercased.
C3_NamesTrimmedUppercased ==
    \A i \in 1..Len(matches) :
      \A n \in { matches[i].player1_name, matches[i].player2_name } :
        n # <<>> /\ Strip(n) = n /\ Upper(n) = n

StatIsFold(b, n) ==
    /\ b.total_games = RefGames(n)
    /\ b.wins = RefWins(n)
    /\ b.losses = b.total_games - b.wins
    /\ b.wins + b.losses = b.total_games
    /\ b.total_games = 0 => b.win_rate = 0
    \* win_rate is wins / total_games to the nearest hundredth
    /\ b.total_games > 0 =>
         /\ 2 * (100 * b.wins - b.win_rate * b.total_games) <= b.total_games
         /\ 2 * (b.win_rate * b.total_games - 100 * b.wins) <= b.total_games

\* C4 as stated: for every non-empty name, get_player_stats(name) is the
\* fold over the (match, side) pairs whose player name equals name exactly
\* (a blank name is read as empty).
C4_StatsOfExactName ==
    (resp.op = "get_player_stats" /\ Strip(resp.path) # <<>>)
      => (resp.status = 200 /\ StatIsFold(resp.body, resp.path))

\* C4 amended: for every name that is non-empty once trimmed,
\* get_player_stats(name) is the fold over the (match, side) pairs whose
\* player name equals the trimmed name exactly, and the zeroed stat when
\* there is none.
C4_StatsOfTrimmedName ==
    (resp.op = "get_player_stats" /\ Strip(resp.path) # <<>>)
      => (resp.status = 200 /\ resp.body.name = Strip(resp.path)
            /\ StatIsFold(resp.body, Strip(resp.path)))

\* stats of a player with a win and a loss, asked for with a padded name
C4_Witness ==
    /\ resp.op = "get_player_stats" /\ resp.status = 200
    /\ resp.path # Strip(resp.path)
    /\ resp.body.wins = 1 /\ resp.body.losses = 1

\* C5: when limit does not truncate, leaderboard(min_games = k) lists exactly
\* the players with total_games >= k (k clamped to >= 0).
C5_MinGamesFilter ==
    (resp.op = "get_leaderboard" /\ resp.status = 200) =>
      LET k == ArgInt(resp.min_games, 1)
          k0 == IF k < 0 THEN 0 ELSE k
          limit == ArgInt(resp.limit, 10)
          eligible == { n \in AllNames : RefGames(n) >= k0 }
      IN  (limit < 0 \/ (limit >= Cardinality(eligible) /\ Cardinality(eligible) <= 100))
            => /\ BodyNames = eligible
               /\ Len(resp.body) = Cardinality(eligible)

\* an untruncated leaderboard with min_games = 2 that keeps one player and
\* drops another
C5_Witness ==
    /\ resp.op = "get_leaderboard" /\ resp.status = 200
    /\ ArgInt(resp.min_games, 1) = 2
    /\ ArgInt(resp.limit, 10) >= Cardinality(AllNames)
    /\ BodyNames # {}
    /\ BodyNames # AllNames

\* C6: the leaderboard is sorted non-increasing by wins and, among equal
\* wins, non-increasing by total_games; rank is the 1-based position.
C6_LeaderboardSorted ==
    (resp.op \in BoardOps /\ resp.status = 200) =>
      /\ \A i \in 1..Len(resp.body) : resp.body[i].rank = i
      /\ \A i, j \in 1..Len(resp.body) :
           i < j =>
             /\ resp.body[i].wins >= resp.body[j].wins
             /\ resp.body[i].wins = resp.body[j].wins
                  => resp.body[i].total_games >= resp.body[j].total_games

\* a leaderboard whose first two entries tie on wins and differ in games
C6_Witness ==
    /\ resp.op \in BoardOps /\ resp.status = 200
    /\ Len(resp.body) >= 3
    /\ resp.body[1].wins = resp.body[2].wins
    /\ resp.body[1].total_games > resp.body[2].total_games

\* C7: for every integer limit (0, negative and above 100 included) the
\* leaderboard has at most limit entries (none for a negative limit) and at
\* most 100, and is a prefix of the full ranking.
C7_LimitTruncates ==
    (resp.op \in BoardOps /\ resp.status = 200 /\ IsIntLiteral(resp.limit)) =>
      /\ Len(resp.body) <= (IF IntOf(resp.limit) < 0 THEN 0 ELSE IntOf(resp.limit))
      /\ Len(resp.body) <= 100
      /\ \A i \in 1..Len(resp.body) :
           /\ resp.body[i].wins = RefWins(resp.body[i].name)
           /\ resp.body[i].total_games = RefGames(resp.body[i].name)
           /\ \A n \in AllNames \ BodyNames :
                ~ (RefWins(n) > resp.body[i].wins
                     /\ (resp.op = "page_leaderboard"
                           \/ RefGames(n) >= ArgInt(resp.min_games, 1)))

RefListOrder ==
    CHOOSE f \in [1..Len(matches) -> 1..Len(matches)] :
      \A i, j \in 1..Len(matches) :
        i < j =>
          \/ matches[f[i]].created_at > matches[f[j]].created_at
          \/ /\ matches[f[i]].created_at = matches[f[j]].created_at
             /\ matches[f[i]].id > matches[f[j]].id

\* C9: list returns the matches by created_at descending, ties by id
\* descending, windowed to the 1-indexed page, page clamped to >= 1 and
\* per_page to <= 50.
C9_ListOrderedWithIdTieBreak ==
    (resp.op \in ListOps /\ resp.status = 200) =>
      LET page == resp.body.page
          per_page == resp.body.per_page
          first == (page - 1) * per_page + 1
          last == IF page * per_page < Len(matches) THEN page * per_page
                  ELSE Len(matches)
      IN  /\ page >= 1
          /\ per_page <= 50
          /\ resp.body.matches = [i \in 1..(last - first + 1) |->
                                    matches[RefListOrder[first + i - 1]]]

\* C10: every stored match has score_p1 >= 0 and score_p2 >= 0.
C10_ScoresNonNegative ==
    \A i \in 1..Len(matches) : matches[i].score_p1 >= 0 /\ matches[i].score_p2 >= 0

====
